---- MODULE Spec2Model ----
(***************************************************************************)
(* Model of chat2.0.py, the Streamlit interview sorter.                    *)
(*                                                                         *)
(* A Python str is modelled as the sequence of its Unicode code points:    *)
(* '|' is 124, '\n' is 10, ' ' is 32, "充分" is <<20805, 20998>>.          *)
(* The session state of st.session_state is the state of the model, and    *)
(* one action is the whole script run that one user interaction triggers   *)
(* (st.rerun() included).                                                  *)
(***************************************************************************)
EXTENDS FiniteSets, Integers, Sequences, TLC

VARIABLES
    processed,          \* st.session_state.processed
    results,            \* st.session_state.results: None or a DataFrame
    interview_text,     \* st.session_state.interview_text
    outline_questions,  \* st.session_state.outline_questions
    deepseek_api_key,   \* st.session_state.deepseek_api_key (sidebar widget)
    outline_text,       \* local of the submit handler (line 190), Unset when not assigned
    response,           \* local of the submit handler (line 195), Unset when not assigned
    request,            \* the requests.post issued while handling the last interaction, or None
    messages,           \* st.warning / st.error shown while handling the last interaction
    page,               \* what the last script run rendered
    interaction,        \* the widget that triggered the last script run (lines 177, 260, 270)
    pc                  \* "session" for the app; "call" / "done" for a single function call

vars == <<processed, results, interview_text, outline_questions, deepseek_api_key,
          outline_text, response, request, messages, page, interaction, pc>>

-----------------------------------------------------------------------------
(* Bounds of the model. *)

\* longest reply string handed to parse_response on its own
MaxReplyLen == 8
\* longest outline text handed to extract_questions_from_outline on its own
MaxOutlineLen == 7

-----------------------------------------------------------------------------
(* Values. *)

None == [tag |-> "None"]
Unset == [tag |-> "unset"]
Str(s) == [tag |-> "str", val |-> s]

\* the characters Python's str.strip() removes (str.isspace)
Whitespace ==
    {9, 10, 11, 12, 13, 28, 29, 30, 31, 32, 133, 160, 5760, 8232, 8233, 8239, 8287, 12288}
        \cup (8192 .. 8202)

\* the '\n' of text.split('\n') and "\n".join
NEWLINE == 10
\* the '|' of parse_response
DELIMITER == 124

\* "充分"
LABEL_FULL == <<20805, 20998>>
\* "未覆盖"
LABEL_NONE == <<26410, 35206, 30422>>

NO_FOLLOW_UP_blank == <<>>
\* "无", the followUp of a three-field line
NO_FOLLOW_UP == <<26080>>

-----------------------------------------------------------------------------
(* str methods. *)

RECURSIVE lstrip(_)
lstrip(s) == IF s # <<>> /\ Head(s) \in Whitespace THEN lstrip(Tail(s)) ELSE s

RECURSIVE rstrip(_)
rstrip(s) ==
    IF s # <<>> /\ s[Len(s)] \in Whitespace THEN rstrip(SubSeq(s, 1, Len(s) - 1)) ELSE s

strip(s) == rstrip(lstrip(s))

contains(s, c) == \E i \in 1 .. Len(s) : s[i] = c

\* s.split(sep) for a one-character sep: always at least one piece
RECURSIVE split(_, _)
split(s, sep) ==
    IF ~contains(s, sep)
    THEN <<s>>
    ELSE LET i == CHOOSE k \in 1 .. Len(s) :
                      s[k] = sep /\ \A j \in 1 .. (k - 1) : s[j] # sep
         IN  <<SubSeq(s, 1, i - 1)>> \o split(SubSeq(s, i + 1, Len(s)), sep)

\* sep.join(parts)
RECURSIVE join(_, _)
join(parts, sep) ==
    IF parts = <<>> THEN <<>>
    ELSE IF Len(parts) = 1 THEN parts[1]
    ELSE parts[1] \o <<sep>> \o join(Tail(parts), sep)

\* [f(x) for x in xs]
RECURSIVE strip_each(_)
strip_each(xs) == IF xs = <<>> THEN <<>> ELSE <<strip(Head(xs))>> \o strip_each(Tail(xs))

\* [x for x in xs if x]
RECURSIVE non_empty(_)
non_empty(xs) ==
    IF xs = <<>> THEN <<>>
    ELSE (IF Head(xs) # <<>> THEN <<Head(xs)>> ELSE <<>>) \o non_empty(Tail(xs))

-----------------------------------------------------------------------------
(* extract_questions_from_outline *)

RECURSIVE questions_of_lines(_)
questions_of_lines(lines) ==
    IF lines = <<>> THEN <<>>
    ELSE (IF strip(Head(lines)) # <<>> THEN <<strip(Head(lines))>> ELSE <<>>)
             \o questions_of_lines(Tail(lines))

RECURSIVE questions_unstripped(_)
questions_unstripped(lines) ==
    IF lines = <<>> THEN <<>>
    ELSE (IF strip(Head(lines)) # <<>> THEN <<Head(lines)>> ELSE <<>>)
             \o questions_unstripped(Tail(lines))

extract_questions_unstripped(text) == questions_unstripped(split(text, NEWLINE))

extract_questions_from_outline(text) == questions_of_lines(split(text, NEWLINE))

-----------------------------------------------------------------------------
(* parse_response *)

\* pd.DataFrame(data): a frame built from no rows has no columns
DataFrame(data) ==
    [tag |-> "DataFrame",
     rows |-> data,
     columns |-> IF data = <<>> THEN {}
                 ELSE {"question", "summary", "coverage", "followUp"}]

\* line 130: the stripped lines that are non-empty and hold a '|'
RECURSIVE response_lines(_)
response_lines(raw) ==
    IF raw = <<>> THEN <<>>
    ELSE (IF strip(Head(raw)) # <<>> /\ contains(Head(raw), DELIMITER)
          THEN <<strip(Head(raw))>> ELSE <<>>)
             \o response_lines(Tail(raw))

\* lines 134-148: the rows one line contributes
row_of_line_gt4(line) ==
    LET parts == strip_each(split(line, DELIMITER))
    IN  IF Len(parts) > 4
        THEN <<[question |-> parts[1], summary |-> parts[2],
                coverage |-> parts[3], followUp |-> parts[4]]>>
        ELSE IF Len(parts) = 3
        THEN <<[question |-> parts[1], summary |-> parts[2],
                coverage |-> parts[3], followUp |-> NO_FOLLOW_UP]>>
        ELSE <<>>

row_of_line(line) ==
    LET parts == strip_each(split(line, DELIMITER))
    IN  IF Len(parts) >= 4
        THEN <<[question |-> parts[1], summary |-> parts[2],
                coverage |-> parts[3], followUp |-> parts[4]]>>
        ELSE IF Len(parts) = 3
        THEN <<[question |-> parts[1], summary |-> parts[2],
                coverage |-> parts[3], followUp |-> NO_FOLLOW_UP]>>
        ELSE <<>>

RECURSIVE rows_of_lines(_)
rows_of_lines(lines) ==
    IF lines = <<>> THEN <<>> ELSE row_of_line(Head(lines)) \o rows_of_lines(Tail(lines))

parse_response(reply) == DataFrame(rows_of_lines(response_lines(split(reply, NEWLINE))))

-----------------------------------------------------------------------------
(* extract_text_from_file *)

\* An uploaded file: its extension, what the reader library finds in it (the page
\* texts of a PDF, the paragraph texts of a DOCX, the characters of a TXT), and
\* whether the reader raises on it.
File(ext, content, corrupt) ==
    [tag |-> "file", ext |-> ext, content |-> content, corrupt |-> corrupt]

extract_text_from_file(file) ==
    IF file.corrupt
    THEN [text |-> <<>>, messages |-> {"error_file"}]
    ELSE [text |-> CASE file.ext = "pdf"  -> join(non_empty(file.content), NEWLINE)
                     [] file.ext = "docx" -> join(non_empty(file.content), NEWLINE)
                     [] file.ext = "txt"  -> file.content
                     [] OTHER             -> <<>>,
          messages |-> {}]

-----------------------------------------------------------------------------
(* analyze_with_deepseek *)

\* What the HTTP exchange does: a response with a status code and a content, or
\* an exception (transport failure, a body that is not the expected JSON).
HttpReply(status, content) == [kind |-> "response", status |-> status, content |-> content]
HttpException == [kind |-> "exception"]

\* returns the reply text or None, with the request posted and the errors shown
analyze_with_deepseek(api_key, text, questions, http) ==
    IF api_key = <<>>
    THEN [response |-> None, request |-> None, messages |-> {"error_key"}]
    ELSE LET posted == [api_key |-> api_key, interview_text |-> text,
                        questions |-> questions]
         IN  IF http.kind = "exception"
             THEN [response |-> None, request |-> posted, messages |-> {"error_exception"}]
             ELSE IF http.status = 200
             THEN [response |-> Str(http.content), request |-> posted, messages |-> {}]
             ELSE [response |-> None, request |-> posted, messages |-> {"error_status"}]

-----------------------------------------------------------------------------
(* The page: lines 153, 206-265, 268. *)

value_count(rows, label) == Cardinality({i \in 1 .. Len(rows) : rows[i].coverage = label})

\* lines 210-214: results['覆盖情况'] raises KeyError when the frame has no such column
coverage_summary(frame) ==
    IF "coverage" \notin frame.columns
    THEN [tag |-> "KeyError"]
    ELSE [tag |-> "metrics",
          total |-> Len(frame.rows),
          fullCount |-> value_count(frame.rows, LABEL_FULL),
          noneCount |-> value_count(frame.rows, LABEL_NONE)]

\* one run of the script body over the session state: an uncaught exception ends
\* the run, so nothing after line 210 is rendered when the summary raises
render(p, r) ==
    LET form    == IF ~p THEN {"upload_form"} ELSE {}
        shows   == p /\ r # None
        summary == IF shows THEN coverage_summary(r) ELSE None
        raised  == shows /\ summary.tag = "KeyError"
    IN  [sections |-> form
                        \cup (IF shows /\ ~raised THEN {"results", "restart_button"} ELSE {})
                        \cup (IF raised THEN {} ELSE {"sidebar"}),
         metrics  |-> IF shows /\ ~raised THEN summary ELSE None,
         exception |-> IF raised THEN "KeyError" ELSE "none"]

-----------------------------------------------------------------------------
(* Inputs of the session. *)

NoFile == None

\* "T", "U"
InterviewFiles ==
    { File("pdf", <<<<84>>>>, FALSE),
      File("pdf", <<<<84>>>>, TRUE),
      File("docx", <<<<84>>, <<>>, <<85>>>>, FALSE),
      File("docx", <<>>, FALSE) }

\* "a\n\n  \nb", "a", ""
OutlineFiles ==
    { File("txt", <<97, 10, 10, 32, 32, 10, 98>>, FALSE),
      File("txt", <<97>>, TRUE),
      File("docx", <<<<97>>, <<>>, <<98>>>>, FALSE),
      File("txt", <<>>, FALSE) }

\* "", "k"
ApiKeys == {<<>>, <<107>>}

\* "", "x", "Q|s|充分", "Q | s | 未覆盖 | f | g", "Q|s|充分\nx\nR|s|部分", "Q|s|", "Q|s"
Replies ==
    { <<>>,
      <<120>>,
      <<81, 124, 115, 124, 20805, 20998>>,
      <<81, 32, 124, 32, 115, 32, 124, 32, 26410, 35206, 30422, 32, 124, 32, 102,
        32, 124, 32, 103>>,
      <<81, 124, 115, 124, 20805, 20998, 10, 120, 10, 82, 124, 115, 124, 37096, 20998>>,
      <<81, 124, 115, 124>>,
      <<81, 124, 115>> }

HttpOutcomes ==
    {HttpReply(200, c) : c \in Replies} \cup {HttpReply(401, <<>>), HttpException}

-----------------------------------------------------------------------------
(* The session: lines 22-29, 153-203, 260-265, 270-275. *)

Init ==
    /\ processed = FALSE
    /\ results = None
    /\ interview_text = <<>>
    /\ outline_questions = <<>>
    /\ deepseek_api_key = <<>>
    /\ outline_text = Unset
    /\ response = Unset
    /\ request = None
    /\ messages = {}
    /\ page = render(FALSE, None)
    /\ interaction = "load"
    /\ pc = "session"

\* lines 180-184: which branch of the submit handler runs
submit_branch_no_key_check(interview_file, outline_file, api_key) ==
    IF interview_file = NoFile \/ outline_file = NoFile THEN "warning_files"
    ELSE "run"

submit_branch(interview_file, outline_file, api_key) ==
    IF interview_file = NoFile \/ outline_file = NoFile THEN "warning_files"
    ELSE IF api_key = <<>> THEN "warning_key"
    ELSE "run"

\* the form's submit button, lines 179-203
Submit(interview_file, outline_file, http) ==
    /\ pc = "session"
    /\ "upload_form" \in page.sections
    /\ LET branch == submit_branch(interview_file, outline_file, deepseek_api_key)
       IN  IF branch # "run"
           THEN /\ messages' = {branch}
                /\ request' = None
                /\ response' = Unset
                /\ outline_text' = Unset
                /\ page' = render(processed, results)
                /\ UNCHANGED <<processed, results, interview_text, outline_questions>>
           ELSE LET it == extract_text_from_file(interview_file)
                    ot == extract_text_from_file(outline_file)
                    qs == extract_questions_from_outline(ot.text)
                    a  == analyze_with_deepseek(deepseek_api_key, it.text, qs, http)
                    ok == a.response # None /\ a.response.val # <<>>
                IN  /\ interview_text' = it.text
                    /\ outline_questions' = qs
                    /\ request' = a.request
                    /\ messages' = it.messages \cup ot.messages \cup a.messages
                    /\ IF ok
                       THEN /\ results' = parse_response(a.response.val)
                            /\ processed' = TRUE
                            \* st.rerun(): the locals of the run are gone
                            /\ response' = Unset
                            /\ outline_text' = Unset
                       ELSE /\ response' = a.response
                            /\ outline_text' = Str(ot.text)
                            /\ UNCHANGED <<processed, results>>
                    /\ page' = render(processed', results')
    /\ interaction' = "submit"
    /\ UNCHANGED <<deepseek_api_key, pc>>

Restart_keeps_text ==
    /\ pc = "session"
    /\ "restart_button" \in page.sections
    /\ processed' = FALSE
    /\ results' = None
    /\ outline_questions' = <<>>
    /\ outline_text' = Unset
    /\ response' = Unset
    /\ request' = None
    /\ messages' = {}
    /\ page' = render(processed', results')
    /\ interaction' = "restart"
    /\ UNCHANGED <<interview_text, deepseek_api_key, pc>>

\* the restart button, lines 260-265
Restart ==
    /\ pc = "session"
    /\ "restart_button" \in page.sections
    /\ processed' = FALSE
    /\ results' = None
    /\ interview_text' = <<>>
    /\ outline_questions' = <<>>
    /\ outline_text' = Unset
    /\ response' = Unset
    /\ request' = None
    /\ messages' = {}
    /\ page' = render(processed', results')
    /\ interaction' = "restart"
    /\ UNCHANGED <<deepseek_api_key, pc>>

\* the sidebar's key input, lines 270-275: the script runs again with the new key
SetApiKey(key) ==
    /\ pc = "session"
    /\ "sidebar" \in page.sections
    /\ key # deepseek_api_key
    /\ deepseek_api_key' = key
    /\ outline_text' = Unset
    /\ response' = Unset
    /\ request' = None
    /\ messages' = {}
    /\ page' = render(processed, results)
    /\ interaction' = "api_key"
    /\ UNCHANGED <<processed, results, interview_text, outline_questions, pc>>

Next ==
    \/ \E f \in InterviewFiles \cup {NoFile}, g \in OutlineFiles \cup {NoFile},
          h \in HttpOutcomes : Submit(f, g, h)
    \/ Restart
    \/ \E k \in ApiKeys : SetApiKey(k)

Spec == Init /\ [][Next]_vars

-----------------------------------------------------------------------------
(* The two pure functions on their own: one call on each bounded input. *)

Strings(alphabet, n) == UNION {[1 .. k -> alphabet] : k \in 0 .. n}

\* 'a', '|', ' ', '\n'
ReplyAlphabet == {97, 124, 32, 10}
\* 'a', 'b', ' ', '\n'
OutlineAlphabet == {97, 98, 32, 10}

InitCall ==
    /\ processed = FALSE
    /\ results = None
    /\ interview_text = <<>>
    /\ outline_questions = <<>>
    /\ deepseek_api_key = <<>>
    /\ request = None
    /\ messages = {}
    /\ page = render(FALSE, None)
    /\ interaction = "load"
    /\ pc = "call"

InitParse ==
    /\ InitCall
    /\ outline_text = Unset
    /\ \E s \in Strings(ReplyAlphabet, MaxReplyLen) : response = Str(s)

\* results = parse_response(response)
CallParse ==
    /\ pc = "call"
    /\ results' = parse_response(response.val)
    /\ pc' = "done"
    /\ UNCHANGED <<processed, interview_text, outline_questions, deepseek_api_key,
                   outline_text, response, request, messages, page, interaction>>

SpecParse == InitParse /\ [][CallParse]_vars

InitSplit ==
    /\ InitCall
    /\ response = Unset
    /\ \E s \in Strings(OutlineAlphabet, MaxOutlineLen) : outline_text = Str(s)

\* outline_questions = extract_questions_from_outline(outline_text)
CallSplit ==
    /\ pc = "call"
    /\ outline_questions' = extract_questions_from_outline(outline_text.val)
    /\ pc' = "done"
    /\ UNCHANGED <<processed, results, interview_text, deepseek_api_key,
                   outline_text, response, request, messages, page, interaction>>

SpecSplit == InitSplit /\ [][CallSplit]_vars

-----------------------------------------------------------------------------
(* Vocabulary of the properties: lines, fields and trimming by position. *)

SepAt(s, sep) == {i \in 1 .. Len(s) : s[i] = sep}

\* the number of pieces the separator cuts s into
PieceCount(s, sep) == Cardinality(SepAt(s, sep)) + 1

\* where the k-th separator stands; 0 before the first piece, Len(s) + 1 after the last
SepPos(s, sep, k) ==
    IF k = 0 THEN 0
    ELSE IF k = PieceCount(s, sep) THEN Len(s) + 1
    ELSE CHOOSE p \in SepAt(s, sep) : Cardinality({q \in SepAt(s, sep) : q <= p}) = k

\* the k-th piece: what stands between the (k-1)-th and the k-th separator
Piece(s, sep, k) == SubSeq(s, SepPos(s, sep, k - 1) + 1, SepPos(s, sep, k) - 1)

\* s from its first to its last non-whitespace character
Trimmed(s) ==
    LET ink == {i \in 1 .. Len(s) : s[i] \notin Whitespace}
    IN  IF ink = {} THEN <<>>
        ELSE SubSeq(s, CHOOSE i \in ink : \A j \in ink : i <= j,
                       CHOOSE i \in ink : \A j \in ink : j <= i)

LineCount(text) == PieceCount(text, 10)
Line(text, k) == Piece(text, 10, k)
FieldCount(line) == PieceCount(line, 124)
Field(line, k) == Trimmed(Piece(line, 124, k))

\* the reply lines that give a record, by line number
RecordLines(reply) ==
    {k \in 1 .. LineCount(reply) :
        /\ Trimmed(Line(reply, k)) # <<>>
        /\ SepAt(Line(reply, k), 124) # {}
        /\ FieldCount(Line(reply, k)) >= 3}

\* the place in the report of the record of line k
Rank(reply, k) == Cardinality({j \in RecordLines(reply) : j <= k})

-----------------------------------------------------------------------------
(* C1: parse_response returns one record per reply line that is non-empty    *)
(* after trimming, holds a '|' and has at least 3 fields, in line order; the *)
(* record's question, summary and coverage are the trimmed fields 1, 2, 3; a *)
(* line of 4 or more fields gives its 4th as followUp and the rest is        *)
(* ignored; a line of 2 or fewer fields gives no record.                     *)
C1_ParseDispatch ==
    pc = "done" =>
        LET reply == response.val
        IN  /\ results.tag = "DataFrame"
            /\ Len(results.rows) = Cardinality(RecordLines(reply))
            /\ \A k \in RecordLines(reply) :
                   LET line == Line(reply, k)
                       row  == results.rows[Rank(reply, k)]
                   IN  /\ DOMAIN row = {"question", "summary", "coverage", "followUp"}
                       /\ row.question = Field(line, 1)
                       /\ row.summary = Field(line, 2)
                       /\ row.coverage = Field(line, 3)
                       /\ FieldCount(line) >= 4 => row.followUp = Field(line, 4)

\* "x\n|||a|": the first line is dropped, the second has five fields
C1_Witness ==
    /\ pc = "done"
    /\ response = Str(<<97, 10, 124, 124, 124, 97, 124>>)
    /\ results.rows = <<[question |-> <<>>, summary |-> <<>>, coverage |-> <<>>,
                         followUp |-> <<97>>]>>

C3_CoverageNonEmpty ==
    pc = "done" => \A i \in 1 .. Len(results.rows) : results.rows[i].coverage # <<>>

(* C10: extract_questions_from_outline returns, in line order and without    *)
(* deduplication, the trimmed lines that are non-empty after trimming; and   *)
(* a text that is the newline-join of non-empty whitespace-free strings      *)
(* splits into exactly those strings. A text is such a join exactly when it  *)
(* is empty (the join of no string) or each of its lines is non-empty and    *)
(* whitespace-free.                                                          *)
C10_SplitterLines ==
    pc = "done" =>
        LET text  == outline_text.val
            kept  == {k \in 1 .. LineCount(text) : Trimmed(Line(text, k)) # <<>>}
            clean == \A k \in 1 .. LineCount(text) :
                         /\ Line(text, k) # <<>>
                         /\ \A i \in 1 .. Len(Line(text, k)) :
                                Line(text, k)[i] \notin Whitespace
        IN  /\ Len(outline_questions) = Cardinality(kept)
            /\ \A k \in kept :
                   outline_questions[Cardinality({j \in kept : j <= k})]
                       = Trimmed(Line(text, k))
            /\ text = <<>> => outline_questions = <<>>
            /\ clean => /\ Len(outline_questions) = LineCount(text)
                        /\ \A k \in 1 .. LineCount(text) :
                               outline_questions[k] = Line(text, k)

\* "a\n\n  \nb" gives ["a", "b"]
C10_Witness ==
    /\ pc = "done"
    /\ outline_text = Str(<<97, 10, 10, 32, 32, 10, 98>>)
    /\ outline_questions = <<<<97>>, <<98>>>>

-----------------------------------------------------------------------------
(* Properties of the session. *)

\* the submit handler ran on files f, g with the remote outcome h and got as far
\* as extracting text
SubmitExtracts(f, g, h) ==
    /\ Submit(f, g, h)
    /\ submit_branch(f, g, deepseek_api_key) = "run"

(* C4: an empty reply is not a failure: when the remote call succeeds with   *)
(* the empty string, the empty report is committed as the session's result   *)
(* (processed set), and its summary is total 0, fullCount 0, noneCount 0     *)
(* with no error raised.                                                     *)
C4_EmptyReplyCommitted ==
    (interaction = "submit" /\ response = Str(<<>>)) =>
        /\ processed
        /\ results # None
        /\ results.rows = <<>>
        /\ page.exception = "none"
        /\ page.metrics = [tag |-> "metrics", total |-> 0, fullCount |-> 0, noneCount |-> 0]

(* C5: when extraction of the transcript or of the outline gives the empty   *)
(* string, the submit run makes no remote call and leaves transcript text,   *)
(* outline questions, report and processed flag as they were.                *)
C5_ExtractionFailureHalts ==
    [][\A f \in InterviewFiles, g \in OutlineFiles, h \in HttpOutcomes :
           (/\ SubmitExtracts(f, g, h)
            /\ \/ extract_text_from_file(f).text = <<>>
               \/ extract_text_from_file(g).text = <<>>)
           => /\ request' = None
              /\ UNCHANGED <<interview_text, outline_questions, results, processed>>]_vars

(* C6: whenever processed is false, the stored transcript text is empty, the *)
(* stored outline questions are empty and the report is absent.              *)
C6_PopulatedOnlyWhenProcessed ==
    ~processed =>
        /\ interview_text = <<>>
        /\ outline_questions = <<>>
        /\ results = None

(* C7: no request is ever posted with an empty credential; a submit with an  *)
(* empty credential shows a warning, posts nothing, stores no extraction     *)
(* result and leaves processed false.                                        *)
C7_NoCallWithoutCredential ==
    [][/\ request' # None => request'.api_key # <<>>
       /\ \A f \in InterviewFiles \cup {NoFile}, g \in OutlineFiles \cup {NoFile},
             h \in HttpOutcomes :
              (Submit(f, g, h) /\ deepseek_api_key = <<>>)
              => /\ request' = None
                 /\ messages' \in {{"warning_files"}, {"warning_key"}}
                 /\ UNCHANGED <<interview_text, outline_questions, results>>
                 /\ ~processed']_vars

\* both files were given, the key was missing
C7_Witness ==
    /\ interaction = "submit"
    /\ deepseek_api_key = <<>>
    /\ messages = {"warning_key"}
    /\ request = None
    /\ ~processed

(* C8: the restart action, and any step that takes processed from true to    *)
(* false, leaves processed false, the report absent, the transcript text     *)
(* empty and the outline questions empty, with the upload form rendered and  *)
(* the results page not.                                                     *)
C8_RestartResets ==
    [][(Restart \/ (processed /\ ~processed'))
       => /\ processed' = FALSE
          /\ results' = None
          /\ interview_text' = <<>>
          /\ outline_questions' = <<>>
          /\ "upload_form" \in page'.sections
          /\ "results" \notin page'.sections]_vars

C8_Witness ==
    /\ interaction = "restart"
    /\ ~processed
    /\ results = None
    /\ "upload_form" \in page.sections

(* C9: for every report shown, the summary has total equal to the report     *)
(* length, fullCount the number of records whose coverage is exactly "充分", *)
(* noneCount the number whose coverage is exactly "未覆盖", and              *)
(* fullCount + noneCount <= total.                                           *)
C9_SummaryCounts ==
    (processed /\ results # None) =>
        LET rows == results.rows
            full == {i \in 1 .. Len(rows) : rows[i].coverage = <<20805, 20998>>}
            none == {i \in 1 .. Len(rows) : rows[i].coverage = <<26410, 35206, 30422>>}
        IN  /\ page.metrics # None
            /\ page.metrics.total = Len(rows)
            /\ page.metrics.fullCount = Cardinality(full)
            /\ page.metrics.noneCount = Cardinality(none)
            /\ page.metrics.fullCount + page.metrics.noneCount <= page.metrics.total

====
